---- MODULE Spec2Model ----
(***************************************************************************)
(* dFileSystem storage application: the metadata tables (StorageNode,      *)
(* File, Chunk, FileVersion) and the handlers of core_apps/storage that    *)
(* read and write them.  The database is PostgreSQL at READ COMMITTED     *)
(* with autocommit; a handler that issues several statements is several   *)
(* steps, and other requests may run between them.                        *)
(***************************************************************************)
EXTENDS Integers, Sequences, FiniteSets, TLC

VARIABLES
    nodes,      \* StorageNode table: pk -> row
    files,      \* File table: pk -> row
    chunks,     \* Chunk table: pk -> row
    versions,   \* FileVersion table: pk -> row
    blobs,      \* bytes held by the storage nodes: chunk pk -> byte sequence
    ids,        \* primary keys handed out so far, per table
    proc,       \* per worker: the request in progress and its local variables
    resp,       \* outcome of the step just taken (status 0: handler still running)
    hist,       \* history of snapshots: what the File held when each was read
    now         \* timezone.now(), in ticks

vars == <<nodes, files, chunks, versions, blobs, ids, proc, resp, hist, now>>

(* ------------------------------ bounds -------------------------------- *)
MaxFiles == 2
MaxVersions == 2
MaxClock == 2

Procs == {1, 2}
Users == {"u1", "u2"}
Names == {"a", "b"}

\* chunk_size and replication_factor of an upload request
ChunkSizes == {-4096, 0, 4095, 4096}
ReplicationFactors == {0, 2}

\* the uploaded byte sequences: empty, and two of the same length
Contents == {<<>>, <<0>>, <<1>>}

(* hashlib.sha256(...).hexdigest(), idealised as collision free: the byte   *)
(* sequence read as a number in base 3 with digits 1 and 2.                *)
RECURSIVE Digest(_)
Digest(bytes) ==
    IF bytes = <<>> THEN 0
    ELSE (bytes[1] + 1) + 3 * Digest(Tail(bytes))

MaxOf(S) == CHOOSE x \in S : \A y \in S : y <= x

RECURSIVE SumOver(_, _)
SumOver(S, f) ==
    IF S = {} THEN 0
    ELSE LET x == CHOOSE y \in S : TRUE IN f[x] + SumOver(S \ {x}, f)

Idle == [pc |-> "idle"]
NoResp == [op |-> "none", status |-> 0]
EmptyTable == [x \in {} |-> 0]

(* ------------------------------- File ---------------------------------- *)

\* variant: a duplicate check that skips soft-deleted rows
ExistingFilesActive(checksum, user) ==
    {f \in DOMAIN files :
        files[f].checksum = checksum /\ files[f].user = user /\ ~files[f].is_deleted}

\* File.objects.filter(checksum=file_checksum, user=request.user)
ExistingFiles(checksum, user) ==
    {f \in DOMAIN files : files[f].checksum = checksum /\ files[f].user = user}

\* UniqueConstraint(fields=['name', 'checksum', 'user']): would `row`, stored
\* under pk `self`, duplicate another row of the table?
FileUniqueViolated(row, self) ==
    \E g \in DOMAIN files \ {self} :
        /\ files[g].name = row.name
        /\ files[g].checksum = row.checksum
        /\ files[g].user = row.user

\* FileViewSet.get_queryset: the caller's files that are not soft-deleted
FileVisible(f, user) ==
    /\ f \in DOMAIN files
    /\ ~files[f].is_deleted
    /\ files[f].user = user

PendingInserts == Cardinality({q \in Procs : proc[q].pc = "upload_insert"})

\* variant: chunk_size checked against its minimum only
ChunkSizeMinOnly(chunk_size) == chunk_size >= 1024

\* FileUploadSerializer.chunk_size: min_value=1024 and validate_chunk_size
ChunkSizeValid(chunk_size) == chunk_size >= 1024 /\ chunk_size % 4096 = 0

\* FileUploadSerializer.replication_factor: min_value=1, max_value=3
ReplicationFactorValid(replication_factor) == replication_factor \in 1..3

\* FileViewSet.create, up to the duplicate check: serializer.is_valid(raise_exception=True),
\* the digest of the uploaded bytes, the lookup of an existing File
UploadCheck(p, user, name, bytes, chunk_size, replication_factor) ==
    /\ proc[p].pc = "idle"
    /\ ids.file + PendingInserts < MaxFiles
    /\ LET file_checksum == Digest(bytes)
           existing == ExistingFiles(file_checksum, user)
           req == [user |-> user, name |-> name, checksum |-> file_checksum]
           out == [op |-> "create", chunk_size |-> chunk_size,
                   replication_factor |-> replication_factor]
       IN  IF ~(ChunkSizeValid(chunk_size) /\ ReplicationFactorValid(replication_factor))
           THEN /\ resp' = out @@ [status |-> 400, id |-> 0]
                /\ proc' = proc
           ELSE IF existing # {}
           THEN /\ resp' = out @@ [status |-> 409, id |-> MaxOf(existing), req |-> req]
                /\ proc' = proc
           ELSE /\ resp' = out @@ [status |-> 0, id |-> 0, req |-> req]
                /\ proc' = [proc EXCEPT ![p] =
                              [pc |-> "upload_insert", user |-> user, name |-> name,
                               size |-> Len(bytes), checksum |-> file_checksum]]
    /\ UNCHANGED <<now, nodes, files, chunks, versions, blobs, ids, hist>>

\* Ghost bookkeeping: a committed change to the File table other than a
\* snapshot or a restore of file `keep` (0: none) ends the quiet period of
\* every snapshot of the other files, taken or being taken; any committed
\* change to the File table makes a snapshot being taken no longer fresh.
QuietAfter(keep) ==
    {v \in hist.quiet : versions[v].file = keep}

ProcsAfter(p, keep) ==
    [q \in Procs |->
        IF q = p THEN Idle
        ELSE IF proc[q].pc = "version_insert"
             THEN [proc[q] EXCEPT !.quiet = (@ /\ proc[q].file = keep), !.fresh = FALSE]
             ELSE proc[q]]

\* FileViewSet.create: File.objects.create(...) and the commit of the request's
\* transaction.  No chunk is cut or stored (the TODO at lines 98-102).
UploadInsert(p) ==
    /\ proc[p].pc = "upload_insert"
    /\ LET row == [name |-> proc[p].name, size |-> proc[p].size,
                   checksum |-> proc[p].checksum, user |-> proc[p].user,
                   is_deleted |-> FALSE, deleted_at |-> 0]
           pk == ids.file + 1
           req == [user |-> row.user, name |-> row.name, checksum |-> row.checksum]
       IN  IF FileUniqueViolated(row, 0)
           THEN /\ resp' = [op |-> "create", status |-> 500, id |-> 0, req |-> req]
                /\ proc' = [proc EXCEPT ![p] = Idle]
                /\ UNCHANGED <<files, ids, hist>>
           ELSE /\ files' = files @@ (pk :> row)
                /\ ids' = [ids EXCEPT !.file = pk]
                /\ resp' = [op |-> "create", status |-> 201, id |-> pk, req |-> req]
                /\ proc' = ProcsAfter(p, 0)
                /\ hist' = [hist EXCEPT !.quiet = {}]
    /\ UNCHANGED <<now, nodes, chunks, versions, blobs>>

\* PATCH /files/{id}/: FileSerializer leaves name, size, checksum and is_deleted
\* writable; the fields of the request body replace the row's.
ApplyPatch(row, body) ==
    [k \in DOMAIN row |-> IF k \in DOMAIN body THEN body[k] ELSE row[k]]

\* FileViewSet partial_update (ModelViewSet with FileSerializer)
UpdateFile(user, f, body) ==
    /\ FileVisible(f, user)
    /\ LET row == ApplyPatch(files[f], body)
       IN  /\ row # files[f]
           /\ IF FileUniqueViolated(row, f)
              THEN /\ resp' = [op |-> "update", status |-> 400, id |-> f]
                   /\ UNCHANGED <<files, proc, hist>>
              ELSE /\ files' = [files EXCEPT ![f] = row]
                   /\ resp' = [op |-> "update", status |-> 200, id |-> f]
                   /\ proc' = ProcsAfter(0, 0)
                   /\ hist' = [hist EXCEPT !.quiet = {}]
    /\ UNCHANGED <<now, nodes, chunks, versions, blobs, ids>>

\* DELETE /files/{id}/ (FileViewSet, ModelViewSet.destroy): instance.delete();
\* Chunk.file and FileVersion.file are on_delete=CASCADE
DestroyFile(user, f) ==
    /\ FileVisible(f, user)
    /\ files' = [g \in DOMAIN files \ {f} |-> files[g]]
    /\ versions' = [v \in {w \in DOMAIN versions : versions[w].file # f} |-> versions[v]]
    /\ chunks' = [c \in {d \in DOMAIN chunks : chunks[d].file # f} |-> chunks[c]]
    /\ resp' = [op |-> "destroy_file", status |-> 204, id |-> f]
    /\ proc' = ProcsAfter(0, 0)
    /\ hist' = [hist EXCEPT !.quiet = {}]
    /\ UNCHANGED <<now, nodes, blobs, ids>>

\* File.soft_delete (deleted_at 0 stands for None)
SoftDelete(f) ==
    /\ f \in DOMAIN files
    /\ now < MaxClock
    /\ now' = now + 1
    /\ files' = [files EXCEPT ![f].is_deleted = TRUE, ![f].deleted_at = now']
    /\ resp' = [op |-> "soft_delete", status |-> 200, id |-> f]
    /\ proc' = ProcsAfter(0, 0)
    /\ hist' = [hist EXCEPT !.quiet = {}]
    /\ UNCHANGED <<nodes, chunks, versions, blobs, ids>>

\* File.restore
RestoreFile(f) ==
    /\ f \in DOMAIN files
    /\ files' = [files EXCEPT ![f].is_deleted = FALSE, ![f].deleted_at = 0]
    /\ files' # files
    /\ resp' = [op |-> "restore_file", status |-> 200, id |-> f]
    /\ proc' = ProcsAfter(0, 0)
    /\ hist' = [hist EXCEPT !.quiet = {}]
    /\ UNCHANGED <<now, nodes, chunks, versions, blobs, ids>>

\* File.is_available
IsAvailable(f) ==
    /\ ~files[f].is_deleted
    /\ \E c \in DOMAIN chunks : chunks[c].file = f

\* GET /files/{id}/ (FileViewSet, ModelViewSet.retrieve): FileSerializer
\* reports is_available
RetrieveFile(user, f) ==
    /\ FileVisible(f, user)
    /\ resp' = [op |-> "retrieve_file", status |-> 200, id |-> f,
                is_available |-> IsAvailable(f)]
    /\ UNCHANGED <<now, nodes, files, chunks, versions, blobs, ids, proc, hist>>

\* FileViewSet.download: get_object(), then NotImplementedError (the
\* reconstruction from chunks is a TODO); no bytes are returned
Download(user, f) ==
    /\ FileVisible(f, user)
    /\ resp' = [op |-> "download", status |-> 500, id |-> f]
    /\ UNCHANGED <<now, nodes, files, chunks, versions, blobs, ids, proc, hist>>

(* ---------------------------- FileVersion ------------------------------ *)

VersionsOf(f) == {v \in DOMAIN versions : versions[v].file = f}

\* variant: FileVersion without its unique_together
VersionNoConstraint(row) == FALSE

\* unique_together = ('file', 'version_number')
VersionUniqueViolated(row) ==
    \E v \in DOMAIN versions :
        versions[v].file = row.file /\ versions[v].version_number = row.version_number

PendingVersions == Cardinality({q \in Procs : proc[q].pc = "version_insert"})

\* FileViewSet.create_version: file_obj = self.get_object() and
\* file_obj.versions.count() + 1.  The two reads are one step: the first reads
\* only the File table and the second only the FileVersion table, no request
\* writes both, so a write that falls between them can be moved before or after.
CreateVersionRead(p, user, f) ==
    /\ proc[p].pc = "idle"
    /\ ids.version + PendingVersions < MaxVersions
    /\ FileVisible(f, user)
    /\ proc' = [proc EXCEPT ![p] =
                  [pc |-> "version_insert", file |-> f,
                   size |-> files[f].size, checksum |-> files[f].checksum,
                   version_number |-> Cardinality(VersionsOf(f)) + 1,
                   taken |-> <<files[f].size, files[f].checksum>>, quiet |-> TRUE,
                   fresh |-> TRUE]]
    /\ resp' = [op |-> "create_version", status |-> 0, id |-> 0, file |-> f]
    /\ UNCHANGED <<now, nodes, files, chunks, versions, blobs, ids, hist>>

\* variant: the version row built from the File as it is at insert time
VersionRowLate(p) ==
    [file |-> proc[p].file, version_number |-> proc[p].version_number,
     size |-> files[proc[p].file].size, checksum |-> files[proc[p].file].checksum]

\* variant: a restore that writes the checksum and not the size
RestoredRowChecksumOnly(v) ==
    [files[versions[v].file] EXCEPT !.checksum = versions[v].checksum]

\* FileViewSet.create_version: the fields passed to FileVersion.objects.create
VersionRow(p) ==
    [file |-> proc[p].file, version_number |-> proc[p].version_number,
     size |-> proc[p].size, checksum |-> proc[p].checksum]

\* FileViewSet.create_version: FileVersion.objects.create(...)
CreateVersionInsert(p) ==
    /\ proc[p].pc = "version_insert"
    /\ LET row == VersionRow(p)
           pk == ids.version + 1
       IN  IF VersionUniqueViolated(row) \/ row.file \notin DOMAIN files
           THEN /\ resp' = [op |-> "create_version", status |-> 500, id |-> 0,
                            file |-> row.file]
                /\ UNCHANGED <<versions, ids, hist>>
           ELSE /\ versions' = versions @@ (pk :> row)
                /\ ids' = [ids EXCEPT !.version = pk]
                /\ resp' = [op |-> "create_version", status |-> 201, id |-> pk,
                            file |-> row.file, fresh |-> proc[p].fresh]
                /\ hist' = [taken |-> hist.taken @@ (pk :> proc[p].taken),
                            quiet |-> IF proc[p].quiet THEN hist.quiet \cup {pk}
                                      ELSE hist.quiet]
    /\ proc' = [proc EXCEPT ![p] = Idle]
    /\ UNCHANGED <<now, nodes, files, chunks, blobs>>

\* FileVersion.restore: the row written by file.save(update_fields=['size', 'checksum'])
RestoredRow(v) ==
    [files[versions[v].file] EXCEPT !.size = versions[v].size,
                                    !.checksum = versions[v].checksum]

\* FileVersionViewSet.restore -> FileVersion.restore
Restore(user, v) ==
    /\ v \in DOMAIN versions
    /\ files[versions[v].file].user = user
    /\ LET f == versions[v].file
           row == RestoredRow(v)
       IN  IF FileUniqueViolated(row, f)
           THEN /\ resp' = [op |-> "restore", status |-> 500, id |-> v, file |-> f]
                /\ UNCHANGED <<files, proc, hist>>
           ELSE /\ files' = [files EXCEPT ![f] = row]
                /\ resp' = [op |-> "restore", status |-> 200, id |-> v, file |-> f,
                            changed |-> row # files[f]]
                /\ proc' = ProcsAfter(0, f)
                /\ hist' = [hist EXCEPT !.quiet = QuietAfter(f)]
    /\ UNCHANGED <<now, nodes, chunks, versions, blobs, ids>>

(* ------------------------------- Chunk --------------------------------- *)

\* the replicas of a chunk: the rows with its (file, chunk_number)
Replicas(c) ==
    {d \in DOMAIN chunks :
        /\ chunks[d].file = chunks[c].file
        /\ chunks[d].chunk_number = chunks[c].chunk_number}

\* transaction.atomic(): rows a worker has written and not yet committed stay
\* locked against the other writers until it commits (two workers cannot wait
\* for each other here: a worker holds locks only after its UPDATE, and then
\* waits only for its own row, which the other demotes only if it was made
\* primary after that worker loaded it)
LockedBy(q) ==
    IF proc[q].pc \in {"mark_demoted", "mark_saved"} THEN DOMAIN proc[q].writes ELSE {}

LockedByOthers(p) == UNION {LockedBy(q) : q \in Procs \ {p}}

\* Chunk.mark_as_primary: the rows matched by
\* filter(file=, chunk_number=, is_primary=True).exclude(pk=self.pk)
PrimaryTargets(self) == {d \in Replicas(self) \ {self} : chunks[d].is_primary}

\* the caller's Chunk instance: a copy of the row as it was when loaded
GetChunk(p, c) ==
    /\ proc[p].pc = "idle"
    /\ c \in DOMAIN chunks
    /\ proc' = [proc EXCEPT ![p] =
                  [pc |-> "mark_loaded", self |-> c, is_primary |-> chunks[c].is_primary]]
    /\ resp' = [op |-> "mark_as_primary", status |-> 0, id |-> c]
    /\ UNCHANGED <<now, nodes, files, chunks, versions, blobs, ids, hist>>

\* Chunk.mark_as_primary: the UPDATE ... SET is_primary = false takes its
\* snapshot of the committed rows (an UPDATE takes no lock on rows it does not match)
MarkScan(p) ==
    /\ proc[p].pc = "mark_loaded"
    /\ proc' = [proc EXCEPT ![p] =
                  [pc |-> "mark_scanned", self |-> proc[p].self,
                   is_primary |-> proc[p].is_primary,
                   targets |-> PrimaryTargets(proc[p].self)]]
    /\ resp' = [op |-> "mark_as_primary", status |-> 0, id |-> proc[p].self]
    /\ UNCHANGED <<now, nodes, files, chunks, versions, blobs, ids, hist>>

\* Chunk.mark_as_primary: the UPDATE writes the matched rows; it waits for rows
\* locked by another transaction and re-checks is_primary on their committed
\* version, but sees no row that became primary after its snapshot
MarkDemote(p) ==
    /\ proc[p].pc = "mark_scanned"
    /\ proc[p].targets \cap LockedByOthers(p) = {}
    /\ proc' = [proc EXCEPT ![p] =
                  [pc |-> "mark_demoted", self |-> proc[p].self,
                   is_primary |-> proc[p].is_primary,
                   writes |-> [d \in {t \in proc[p].targets : chunks[t].is_primary}
                                 |-> FALSE]]]
    /\ resp' = [op |-> "mark_as_primary", status |-> 0, id |-> proc[p].self]
    /\ UNCHANGED <<now, nodes, files, chunks, versions, blobs, ids, hist>>

\* Chunk.mark_as_primary: if not self.is_primary: ... self.save(update_fields=['is_primary'])
MarkSave(p) ==
    /\ proc[p].pc = "mark_demoted"
    /\ IF ~proc[p].is_primary
       THEN /\ proc[p].self \notin LockedByOthers(p)
            /\ proc' = [proc EXCEPT ![p] =
                          [pc |-> "mark_saved", self |-> proc[p].self, is_primary |-> TRUE,
                           writes |-> proc[p].writes @@ (proc[p].self :> TRUE)]]
       ELSE proc' = [proc EXCEPT ![p].pc = "mark_saved"]
    /\ resp' = [op |-> "mark_as_primary", status |-> 0, id |-> proc[p].self]
    /\ UNCHANGED <<now, nodes, files, chunks, versions, blobs, ids, hist>>

\* Chunk.mark_as_primary: leaving the atomic block commits
MarkCommit(p) ==
    /\ proc[p].pc = "mark_saved"
    /\ chunks' = [d \in DOMAIN chunks |->
                    IF d \in DOMAIN proc[p].writes
                    THEN [chunks[d] EXCEPT !.is_primary = proc[p].writes[d]]
                    ELSE chunks[d]]
    /\ proc' = [proc EXCEPT ![p] = Idle]
    /\ resp' = [op |-> "mark_as_primary", status |-> 200, id |-> proc[p].self]
    /\ UNCHANGED <<now, nodes, files, versions, blobs, ids, hist>>

\* ChunkViewSet._calculate_checksum: the stored bytes are not read
\* (TODO at line 158); the recorded checksum is returned
CalculateChecksum(c) == chunks[c].checksum

\* Chunk.verify_checksum: is_valid
ChecksumValid(row, calculated_checksum) == row.checksum = calculated_checksum

\* Chunk.verify_checksum: the row after the call
VerifiedRow(row, calculated_checksum) ==
    IF ~ChecksumValid(row, calculated_checksum)
    THEN [row EXCEPT !.status = "corrupted"]
    ELSE row

\* ChunkViewSet.get_queryset: the chunks of the caller's files
ChunkVisible(c, user) ==
    /\ c \in DOMAIN chunks
    /\ files[chunks[c].file].user = user

\* ChunkViewSet.verify
Verify(user, c) ==
    /\ ChunkVisible(c, user)
    /\ now < MaxClock
    /\ now' = now + 1
    /\ LET calculated_checksum == CalculateChecksum(c)
           saved == [chunks[c] EXCEPT !.stored_checksum = calculated_checksum,
                                      !.last_verified_at = now']
       IN  /\ chunks' = [chunks EXCEPT ![c] = VerifiedRow(saved, calculated_checksum)]
           /\ resp' = [op |-> "verify", status |-> 200, id |-> c,
                       valid |-> ChecksumValid(saved, calculated_checksum)]
    /\ UNCHANGED <<nodes, files, versions, blobs, ids, proc, hist>>

\* the bytes of a chunk are altered on its storage node, outside the application
AlterBlob(c, bytes) ==
    /\ c \in DOMAIN blobs
    /\ blobs[c] # bytes
    /\ blobs' = [blobs EXCEPT ![c] = bytes]
    /\ resp' = NoResp
    /\ UNCHANGED <<now, nodes, files, chunks, versions, ids, proc, hist>>

(* ---------------------------- StorageNode ------------------------------ *)

\* sum(chunk.size for chunk in Chunk.objects.filter(storage_node=storage_node))
UsedSpace(table, n) ==
    SumOver({c \in DOMAIN table : table[c].storage_node = n},
            [c \in DOMAIN table |-> table[c].size])

\* variant: available computed without the max(0, ...)
StorageMetricsUnclamped(capacity, used_space) ==
    [available |-> capacity - used_space, is_active |-> capacity - used_space > 0]

\* StorageNode.update_storage_metrics: the fields it computes and saves, from
\* the capacity of the instance it is called on
StorageMetrics(capacity, used_space) ==
    LET available == IF capacity - used_space > 0 THEN capacity - used_space ELSE 0
    IN  [available |-> available, is_active |-> available > 0]

\* StorageNode.update_storage_metrics: save(update_fields=['available', 'is_active'])
SaveMetrics(n, m) ==
    [nodes EXCEPT ![n].available = m.available, ![n].is_active = m.is_active]

\* StorageNode.update_storage_metrics on a node just loaded
UpdateStorageMetrics(n, used_space) ==
    /\ n \in DOMAIN nodes
    /\ nodes' = SaveMetrics(n, StorageMetrics(nodes[n].capacity, used_space))
    /\ nodes' # nodes
    /\ resp' = [op |-> "update_storage_metrics", status |-> 200, id |-> n]
    /\ UNCHANGED <<now, files, chunks, versions, blobs, ids, proc, hist>>

\* POST /nodes/ (StorageNodeViewSet, ModelViewSet.create): `available` is
\* read-only in StorageNodeSerializer and the column has neither a default nor
\* null=True, so the INSERT is refused and no row is created
RegisterNode(capacity) ==
    /\ resp' = [op |-> "register_node", status |-> 500, id |-> 0]
    /\ resp' # resp
    /\ UNCHANGED <<now, nodes, files, chunks, versions, blobs, ids, proc, hist>>

\* StorageNodeViewSet.get_queryset: the active nodes, or every node when the
\* request carries include_inactive=true
NodeVisible(n, include_inactive) ==
    /\ n \in DOMAIN nodes
    /\ nodes[n].is_active \/ include_inactive

\* PATCH /nodes/{id}/ (StorageNodeViewSet, ModelViewSet.partial_update):
\* capacity and is_active are writable; the full save stamps last_heartbeat
\* (auto_now)
UpdateNode(n, include_inactive, body) ==
    /\ NodeVisible(n, include_inactive)
    /\ nodes' = [nodes EXCEPT ![n] = [ApplyPatch(nodes[n], body) EXCEPT !.last_heartbeat = now]]
    /\ nodes' # nodes
    /\ resp' = [op |-> "update_node", status |-> 200, id |-> n]
    /\ UNCHANGED <<now, files, chunks, versions, blobs, ids, proc, hist>>

\* StorageNodeViewSet.heartbeat: node = self.get_object()
HeartbeatLoad(p, n, include_inactive) ==
    /\ proc[p].pc = "idle"
    /\ NodeVisible(n, include_inactive)
    /\ proc' = [proc EXCEPT ![p] = [pc |-> "heartbeat_save", node |-> n, loaded |-> nodes[n]]]
    /\ resp' = [op |-> "heartbeat", status |-> 0, id |-> n]
    /\ UNCHANGED <<now, nodes, files, chunks, versions, blobs, ids, hist>>

\* variant: a heartbeat that saves every field of the instance it loaded
HeartbeatSavedAllFields(row, loaded, t) == [loaded EXCEPT !.last_heartbeat = t]

\* StorageNode.update_heartbeat: the row after save(update_fields=['last_heartbeat'])
\* of the instance `loaded`, at time t
HeartbeatSaved(row, loaded, t) == [row EXCEPT !.last_heartbeat = t]

\* StorageNodeViewSet.heartbeat: node.update_heartbeat(); the save raises when
\* the node's row is gone
HeartbeatSave(p) ==
    /\ proc[p].pc = "heartbeat_save"
    /\ now < MaxClock
    /\ now' = now + 1
    /\ LET n == proc[p].node
       IN  IF n \in DOMAIN nodes
           THEN /\ nodes' = [nodes EXCEPT ![n] = HeartbeatSaved(nodes[n], proc[p].loaded, now')]
                /\ resp' = [op |-> "heartbeat", status |-> 200, id |-> n,
                            loaded |-> proc[p].loaded]
           ELSE /\ nodes' = nodes
                /\ resp' = [op |-> "heartbeat", status |-> 500, id |-> n,
                            loaded |-> proc[p].loaded]
    /\ proc' = [proc EXCEPT ![p] = Idle]
    /\ UNCHANGED <<files, chunks, versions, blobs, ids, hist>>

\* Chunk.delete: storage_node = self.storage_node; super().delete()
ChunkDeleteRow(p, user, c) ==
    /\ proc[p].pc = "idle"
    /\ ChunkVisible(c, user)
    /\ chunks' = [d \in DOMAIN chunks \ {c} |-> chunks[d]]
    /\ proc' = [proc EXCEPT ![p] =
                  [pc |-> "delete_sum", chunk |-> c, node |-> chunks[c].storage_node,
                   capacity |-> nodes[chunks[c].storage_node].capacity]]
    /\ resp' = [op |-> "delete_chunk", status |-> 0, id |-> c]
    /\ UNCHANGED <<now, nodes, files, versions, blobs, ids, hist>>

\* Chunk.delete: used_space = sum(... Chunk.objects.filter(storage_node=storage_node))
ChunkDeleteSum(p) ==
    /\ proc[p].pc = "delete_sum"
    /\ proc' = [proc EXCEPT ![p] =
                  [pc |-> "delete_write", chunk |-> proc[p].chunk, node |-> proc[p].node,
                   capacity |-> proc[p].capacity,
                   used_space |-> UsedSpace(chunks, proc[p].node)]]
    /\ resp' = [op |-> "delete_chunk", status |-> 0, id |-> proc[p].chunk]
    /\ UNCHANGED <<now, nodes, files, chunks, versions, blobs, ids, hist>>

\* Chunk.delete: storage_node.update_storage_metrics(used_space); the save
\* with update_fields raises when the node's row is gone
ChunkDeleteWrite(p) ==
    /\ proc[p].pc = "delete_write"
    /\ IF proc[p].node \in DOMAIN nodes
       THEN /\ nodes' = SaveMetrics(proc[p].node,
                                    StorageMetrics(proc[p].capacity, proc[p].used_space))
            /\ resp' = [op |-> "delete_chunk", status |-> 204, id |-> proc[p].chunk,
                        node |-> proc[p].node]
       ELSE /\ nodes' = nodes
            /\ resp' = [op |-> "delete_chunk", status |-> 500, id |-> proc[p].chunk,
                        node |-> proc[p].node]
    /\ proc' = [proc EXCEPT ![p] = Idle]
    /\ UNCHANGED <<now, files, chunks, versions, blobs, ids, hist>>

\* DELETE /nodes/{id}/ (StorageNodeViewSet, ModelViewSet.destroy): node.delete();
\* Chunk.storage_node is on_delete=CASCADE, so the node's Chunk rows are deleted
\* with it (by the collector, not through Chunk.delete)
DeleteNode(n, include_inactive) ==
    /\ NodeVisible(n, include_inactive)
    /\ nodes' = [m \in DOMAIN nodes \ {n} |-> nodes[m]]
    /\ chunks' = [c \in {d \in DOMAIN chunks : chunks[d].storage_node # n} |-> chunks[c]]
    /\ resp' = [op |-> "delete_node", status |-> 204, id |-> n]
    /\ UNCHANGED <<now, files, versions, blobs, ids, proc, hist>>

InitTables ==
    /\ nodes = EmptyTable
    /\ files = EmptyTable
    /\ chunks = EmptyTable
    /\ versions = EmptyTable
    /\ blobs = EmptyTable
    /\ ids = [file |-> 0, version |-> 0]
    /\ proc = [p \in Procs |-> Idle]
    /\ resp = NoResp
    /\ hist = [taken |-> EmptyTable, quiet |-> {}]
    /\ now = 0

NextUpload ==
    \/ \E p \in Procs :
           \/ \E user \in Users, name \in Names, bytes \in Contents,
                 chunk_size \in ChunkSizes, replication_factor \in ReplicationFactors :
                  UploadCheck(p, user, name, bytes, chunk_size, replication_factor)
           \/ UploadInsert(p)
    \/ \E user \in Users, f \in DOMAIN files : UpdateFile(user, f, [is_deleted |-> TRUE])

SpecUpload == InitTables /\ [][NextUpload]_vars

(* ------------------------- a populated database ------------------------ *)

\* stored_checksum is NULL until the first verify
NoChecksum == -1

\* a Chunk row as the model fields default it: stored_checksum NULL,
\* last_verified_at set on creation
ChunkRow(f, n, node, bytes, primary, status) ==
    [file |-> f, chunk_number |-> n, storage_node |-> node, size |-> Len(bytes),
     checksum |-> Digest(bytes), is_primary |-> primary, status |-> status,
     stored_checksum |-> NoChecksum, last_verified_at |-> 0]

\* the bytes on the nodes, per chunk pk: they hash to the recorded checksums
SeedBytes == (1 :> <<0>>) @@ (2 :> <<0>>) @@ (3 :> <<0>>) @@ (4 :> <<1, 0>>) @@ (5 :> <<1, 0>>)

\* one file of two chunks: ordinal 0 on nodes 1, 2, 3 and ordinal 1 on nodes 1, 2;
\* `primary` is the primary replica of ordinal 0 (0: none), chunk 4 that of ordinal 1
SeedChunks(primary, status) ==
    (1 :> ChunkRow(1, 0, 1, SeedBytes[1], primary = 1, status))
      @@ (2 :> ChunkRow(1, 0, 2, SeedBytes[2], primary = 2, "completed"))
      @@ (3 :> ChunkRow(1, 0, 3, SeedBytes[3], primary = 3, "completed"))
      @@ (4 :> ChunkRow(1, 1, 1, SeedBytes[4], TRUE, "completed"))
      @@ (5 :> ChunkRow(1, 1, 2, SeedBytes[5], FALSE, "completed"))

\* the file the seeded chunks belong to
SeedFile ==
    (1 :> [name |-> "a", size |-> 3, checksum |-> Digest(<<0, 1, 0>>), user |-> "u1",
           is_deleted |-> FALSE, deleted_at |-> 0])

\* a StorageNode row whose metrics are up to date
NodeRow(capacity, used) ==
    [capacity |-> capacity,
     available |-> IF capacity > used THEN capacity - used ELSE 0,
     is_active |-> capacity > used, last_heartbeat |-> 0]

\* nodes 1 and 2 hold 3 bytes each: a full node and one with room
Capacities == {3, 5}

\* three nodes whose metrics match the chunks of `table`
SeedNodes(table) ==
    {(1 :> NodeRow(c1, UsedSpace(table, 1))) @@ (2 :> NodeRow(c2, UsedSpace(table, 2)))
        @@ (3 :> NodeRow(5, UsedSpace(table, 3))) : c1 \in Capacities, c2 \in Capacities}

\* every replica completed; ordinal 0 has no primary or any one of its replicas
InitPrimary ==
    /\ \E primary \in 0..3 : chunks = SeedChunks(primary, "completed")
    /\ nodes \in SeedNodes(SeedChunks(0, "completed"))
    /\ nodes[1].capacity = 5 /\ nodes[2].capacity = 5
    /\ files = SeedFile
    /\ versions = EmptyTable
    /\ blobs = SeedBytes
    /\ ids = [file |-> 1, version |-> 0]
    /\ proc = [p \in Procs |-> Idle]
    /\ resp = NoResp
    /\ hist = [taken |-> EmptyTable, quiet |-> {}]
    /\ now = 0

NextPrimary ==
    \E p \in Procs :
        \/ \E c \in DOMAIN chunks : GetChunk(p, c)
        \/ MarkScan(p)
        \/ MarkDemote(p)
        \/ MarkSave(p)
        \/ MarkCommit(p)

SpecPrimary == InitPrimary /\ [][NextPrimary]_vars

\* The File table after two uploads by one owner: different contents, under
\* the same or under different names.
SeedFiles ==
    {(1 :> [name |-> "a", size |-> Len(<<>>), checksum |-> Digest(<<>>), user |-> "u1",
            is_deleted |-> FALSE, deleted_at |-> 0])
       @@ (2 :> [name |-> n2, size |-> Len(<<0>>), checksum |-> Digest(<<0>>),
                 user |-> "u1", is_deleted |-> FALSE, deleted_at |-> 0]) : n2 \in Names}

\* two uploaded files and no version yet
InitVersions ==
    /\ files \in SeedFiles
    /\ chunks = SeedChunks(1, "completed")
    /\ nodes \in SeedNodes(chunks)
    /\ nodes[1].capacity = 5 /\ nodes[2].capacity = 5
    /\ versions = EmptyTable
    /\ blobs = SeedBytes
    /\ ids = [file |-> 2, version |-> 0]
    /\ proc = [p \in Procs |-> Idle]
    /\ resp = NoResp
    /\ hist = [taken |-> EmptyTable, quiet |-> {}]
    /\ now = 0

\* PATCH bodies: new content (size and checksum), or the soft-delete flag
ContentPatches ==
    {[size |-> Len(b), checksum |-> Digest(b)] : b \in Contents} \cup {[is_deleted |-> TRUE]}

NextVersions ==
    \/ \E p \in Procs :
           \/ \E user \in Users, f \in DOMAIN files : CreateVersionRead(p, user, f)
           \/ CreateVersionInsert(p)
    \/ \E user \in Users, f \in DOMAIN files, body \in ContentPatches :
           UpdateFile(user, f, body)
    \/ \E user \in Users, v \in DOMAIN versions : Restore(user, v)

SpecVersions == InitVersions /\ [][NextVersions]_vars

\* deletion of files: through the API, and by the model's soft_delete / restore
NextFileDelete ==
    \/ \E p \in Procs :
           \/ \E user \in Users, f \in DOMAIN files : CreateVersionRead(p, user, f)
           \/ CreateVersionInsert(p)
    \/ \E user \in Users, f \in DOMAIN files : DestroyFile(user, f)
    \/ \E f \in DOMAIN files : SoftDelete(f)
    \/ \E f \in DOMAIN files : RestoreFile(f)
    \/ \E user \in Users, f \in DOMAIN files : UpdateFile(user, f, [is_deleted |-> TRUE])

SpecFileDelete == InitVersions /\ [][NextFileDelete]_vars

\* Chunk.ChunkStatus
Statuses == {"uploading", "completed", "corrupted", "deleted"}

\* chunk 1 in any status, every stored blob intact
InitVerify ==
    /\ \E status \in Statuses : chunks = SeedChunks(1, status)
    /\ nodes \in SeedNodes(SeedChunks(0, "completed"))
    /\ nodes[1].capacity = 5 /\ nodes[2].capacity = 5
    /\ files = SeedFile
    /\ versions = EmptyTable
    /\ blobs = SeedBytes
    /\ ids = [file |-> 1, version |-> 0]
    /\ proc = [p \in Procs |-> Idle]
    /\ resp = NoResp
    /\ hist = [taken |-> EmptyTable, quiet |-> {}]
    /\ now = 0

NextVerify ==
    \/ \E user \in Users, c \in DOMAIN chunks : Verify(user, c)
    \/ \E c \in {1, 2}, bytes \in {<<0>>, <<1>>} : AlterBlob(c, bytes)
    \/ \E user \in Users, f \in DOMAIN files : Download(user, f)

SpecVerify == InitVerify /\ [][NextVerify]_vars

\* file 1 with chunks 1, 2 (ordinal 0) and 4 (ordinal 1), each in any status
InitAvailable ==
    /\ \E st \in [{1, 2, 4} -> Statuses] :
          chunks = [c \in {1, 2, 4} |->
                      [SeedChunks(1, "completed")[c] EXCEPT !.status = st[c]]]
    /\ \E t \in SeedNodes(chunks) : nodes = [n \in {1, 2} |-> t[n]]
    /\ nodes[1].capacity = 5 /\ nodes[2].capacity = 5
    /\ files = SeedFile
    /\ versions = EmptyTable
    /\ blobs = SeedBytes
    /\ ids = [file |-> 1, version |-> 0]
    /\ proc = [p \in Procs |-> Idle]
    /\ resp = NoResp
    /\ hist = [taken |-> EmptyTable, quiet |-> {}]
    /\ now = 0

NextAvailable ==
    \/ \E user \in Users, f \in DOMAIN files : RetrieveFile(user, f)
    \/ \E user \in Users, c \in DOMAIN chunks : ChunkDeleteRow(1, user, c)
    \/ ChunkDeleteSum(1)
    \/ ChunkDeleteWrite(1)
    \/ \E user \in Users, f \in DOMAIN files : UpdateFile(user, f, [is_deleted |-> TRUE])

SpecAvailable == InitAvailable /\ [][NextAvailable]_vars

\* the chunks of nodes 1 and 2, and those two nodes
InitNodes ==
    /\ chunks = [c \in {1, 2, 4, 5} |-> SeedChunks(1, "completed")[c]]
    /\ \E t \in SeedNodes(chunks) : nodes = [n \in {1, 2} |-> t[n]]
    /\ files = SeedFile
    /\ versions = EmptyTable
    /\ blobs = SeedBytes
    /\ ids = [file |-> 1, version |-> 0]
    /\ proc = [p \in Procs |-> Idle]
    /\ resp = NoResp
    /\ hist = [taken |-> EmptyTable, quiet |-> {}]
    /\ now = 0

NextDelete ==
    \E p \in Procs :
        \/ \E user \in Users, c \in DOMAIN chunks : ChunkDeleteRow(p, user, c)
        \/ ChunkDeleteSum(p)
        \/ ChunkDeleteWrite(p)

SpecDelete == InitNodes /\ [][NextDelete]_vars

\* PATCH bodies for a node
NodePatches == {[capacity |-> k] : k \in {1, 5}} \cup {[is_active |-> b] : b \in BOOLEAN}

NextNodes ==
    \/ \E user \in Users, c \in DOMAIN chunks : ChunkDeleteRow(1, user, c)
    \/ ChunkDeleteSum(1)
    \/ ChunkDeleteWrite(1)
    \/ \E capacity \in Capacities : RegisterNode(capacity)
    \/ \E n \in DOMAIN nodes, include_inactive \in BOOLEAN, body \in NodePatches :
           UpdateNode(n, include_inactive, body)
    \/ \E n \in DOMAIN nodes, used_space \in {0, 2, 6} : UpdateStorageMetrics(n, used_space)

SpecNodes == InitNodes /\ [][NextNodes]_vars

\* two nodes with room, and their chunks
InitHeartbeat ==
    /\ InitNodes
    /\ \A n \in DOMAIN nodes : nodes[n].capacity = 5

\* heartbeats (worker 2) next to the writers of the storage metrics: chunk
\* deletions (worker 1) and update_storage_metrics
NextHeartbeat ==
    \/ \E n \in DOMAIN nodes, include_inactive \in BOOLEAN :
           HeartbeatLoad(2, n, include_inactive)
    \/ HeartbeatSave(2)
    \/ \E user \in Users, c \in DOMAIN chunks : ChunkDeleteRow(1, user, c)
    \/ ChunkDeleteSum(1)
    \/ ChunkDeleteWrite(1)
    \/ \E n \in DOMAIN nodes, used_space \in {0, 6} : UpdateStorageMetrics(n, used_space)

SpecHeartbeat == InitHeartbeat /\ [][NextHeartbeat]_vars

\* deletion of nodes, next to chunk deletions and activation through the API
NextNodeDelete ==
    \/ \E user \in Users, c \in DOMAIN chunks : ChunkDeleteRow(1, user, c)
    \/ ChunkDeleteSum(1)
    \/ ChunkDeleteWrite(1)
    \/ \E n \in DOMAIN nodes, include_inactive \in BOOLEAN, active \in BOOLEAN :
           UpdateNode(n, include_inactive, [is_active |-> active])
    \/ \E n \in DOMAIN nodes, include_inactive \in BOOLEAN : DeleteNode(n, include_inactive)

SpecNodeDelete == InitNodes /\ [][NextNodeDelete]_vars

(* ======================= claims: upload and versions =================== *)

\* C2: an upload whose digest equals that of a File already recorded for the
\* same owner (whatever its name, soft-deleted or not) is answered 409 with
\* the pk of such a File, and neither creates a File nor goes on to create one.
C2_DuplicateUploadReturnsExisting ==
    [][(resp'.op = "create" /\ resp'.status \in {0, 409})
          => LET same == {f \in DOMAIN files :
                            /\ files[f].checksum = resp'.req.checksum
                            /\ files[f].user = resp'.req.user}
             IN  same # {} => /\ resp'.status = 409
                              /\ resp'.id \in same
                              /\ files' = files
                              /\ proc' = proc]_vars

\* C2 witness: a 409 that names a soft-deleted File stored under another name.
C2_Witness ==
    /\ resp.op = "create"
    /\ resp.status = 409
    /\ files[resp.id].is_deleted
    /\ files[resp.id].name # resp.req.name
    /\ files[resp.id].checksum = resp.req.checksum

\* C3: at most one File per (owner, digest), and no two Files with the same
\* (name, digest, owner), after any interleaving of uploads.
C3_NoDuplicateContent ==
    \A f \in DOMAIN files : \A g \in DOMAIN files :
        (f # g) => ~(files[f].user = files[g].user /\ files[f].checksum = files[g].checksum)

\* C4: the version numbers of every file are exactly 1..n, and a version that
\* is created gets a number above every version the file had.
C4_VersionNumbersGapFree ==
    /\ [](\A f \in DOMAIN files :
            /\ {versions[v].version_number : v \in VersionsOf(f)}
                 = 1..Cardinality(VersionsOf(f))
            /\ \A v \in VersionsOf(f) : \A w \in VersionsOf(f) :
                 (v # w) => versions[v].version_number # versions[w].version_number)
    /\ [][\A v \in DOMAIN versions' \ DOMAIN versions :
            \A w \in DOMAIN versions :
               (versions[w].file = versions'[v].file)
                  => versions'[v].version_number > versions[w].version_number]_vars

\* C4 witness: two snapshots of one file raced and the loser was rejected.
C4_Witness ==
    /\ resp.op = "create_version"
    /\ resp.status = 500
    /\ Cardinality(VersionsOf(resp.file)) >= 1

\* What a restore of version v may change: size and checksum of its file.
RestoreFrame(v) ==
    LET f == versions[v].file
    IN  /\ DOMAIN files' = DOMAIN files
        /\ \A g \in DOMAIN files : (g # f) => files'[g] = files[g]
        /\ files'[f].name = files[f].name
        /\ files'[f].user = files[f].user
        /\ files'[f].is_deleted = files[f].is_deleted
        /\ files'[f].deleted_at = files[f].deleted_at
        /\ versions' = versions
        /\ chunks' = chunks
        /\ nodes' = nodes

RestoreSets(v) ==
    LET f == versions[v].file
    IN  /\ files'[f].size = versions[v].size
        /\ files'[f].checksum = versions[v].checksum

\* C5 as stated: every restore sets the file's (size, checksum) to the
\* version's and changes nothing else.
C5_RestoreAlwaysSets ==
    [][(resp'.op = "restore") => (RestoreSets(resp'.id) /\ RestoreFrame(resp'.id))]_vars

\* C5 amended: a restore sets the file's (size, checksum) to the version's and
\* changes nothing else, unless another File of the same owner already has the
\* file's name with the version's checksum: then the uniqueness constraint
\* rejects the update and nothing at all changes.
C5_RestoreSetsUnlessDuplicate ==
    [][(resp'.op = "restore")
          => LET v == resp'.id
                 f == versions[v].file
                 taken == \E g \in DOMAIN files \ {f} :
                             /\ files[g].name = files[f].name
                             /\ files[g].user = files[f].user
                             /\ files[g].checksum = versions[v].checksum
             IN  IF taken
                 THEN resp'.status = 500 /\ files' = files /\ RestoreFrame(v)
                 ELSE resp'.status = 200 /\ RestoreSets(v) /\ RestoreFrame(v)]_vars

\* C5 witness: a restore that moved the file to the version's values.
C5_Witness ==
    /\ resp.op = "restore"
    /\ resp.status = 200
    /\ resp.changed
    /\ files[resp.file].size = versions[resp.id].size
    /\ files[resp.file].checksum = versions[resp.id].checksum

\* C6: a version holds the (size, checksum) its file had when the snapshot
\* read it; as long as only snapshots and restores of that file have followed,
\* restoring it succeeds and puts those values back; restoring a version right
\* after taking it (nothing written to the file since the snapshot read it), or
\* a second time in a row, changes nothing.
C6_SnapshotRestoreRoundTrip ==
    /\ [](\A v \in DOMAIN versions :
            <<versions[v].size, versions[v].checksum>> = hist.taken[v])
    /\ [][(resp'.op = "restore" /\ resp'.id \in hist.quiet)
            => /\ resp'.status = 200
               /\ <<files'[resp'.file].size, files'[resp'.file].checksum>>
                     = hist.taken[resp'.id]]_vars
    /\ [][(/\ resp.op = "create_version" /\ resp.status = 201 /\ resp.fresh
           /\ resp'.op = "restore" /\ resp'.id = resp.id)
            => files' = files]_vars
    /\ [][(resp.op = "restore" /\ resp'.op = "restore" /\ resp'.id = resp.id)
            => files' = files]_vars

\* C6 witness: a restore brought the file back to what an undisturbed snapshot
\* had recorded.
C6_Witness ==
    /\ resp.op = "restore"
    /\ resp.status = 200
    /\ resp.changed
    /\ resp.id \in hist.quiet
    /\ <<files[resp.file].size, files[resp.file].checksum>> = hist.taken[resp.id]

(* ====================== claims: chunks and nodes ======================= *)

\* C1: at every instant, every (file, chunk_number) has at most one Chunk
\* record with is_primary = true, also while mark_as_primary calls on
\* different replicas interleave.
C1_SinglePrimary ==
    \A c \in DOMAIN chunks :
        Cardinality({d \in Replicas(c) : chunks[d].is_primary}) <= 1

\* C7: verify compares the digest of the stored bytes with the recorded
\* checksum; it records the computed digest and the time, and on a mismatch
\* sets the status to corrupted and answers valid = false, otherwise leaves
\* the status as it was.
C7_VerifyComparesStoredBytes ==
    [][(resp'.op = "verify")
          => LET c == resp'.id
                 computed == Digest(blobs[c])
             IN  /\ chunks'[c].stored_checksum = computed
                 /\ chunks'[c].last_verified_at = now'
                 /\ IF computed = chunks[c].checksum
                    THEN chunks'[c].status = chunks[c].status /\ resp'.valid
                    ELSE chunks'[c].status = "corrupted" /\ ~resp'.valid]_vars

\* C8: verifying a chunk whose stored bytes no longer hash to its recorded
\* checksum makes that chunk corrupted and leaves every other chunk as it was.
C8_AlteredChunkBecomesCorrupted ==
    [][(resp'.op = "verify" /\ Digest(blobs[resp'.id]) # chunks[resp'.id].checksum)
          => /\ chunks'[resp'.id].status = "corrupted"
             /\ \A d \in DOMAIN chunks \ {resp'.id} : chunks'[d] = chunks[d]]_vars

\* C9: every StorageNode has 0 <= available <= capacity.
C9_AvailableWithinCapacity ==
    \A n \in DOMAIN nodes :
        0 <= nodes[n].available /\ nodes[n].available <= nodes[n].capacity

\* C10: once no chunk deletion is in progress on a node, its available is
\* max(0, capacity - sum of the sizes of the chunks still recorded on it).
C10_NoLostCapacityUpdate ==
    \A n \in DOMAIN nodes :
        (\A p \in Procs : proc[p].pc \in {"delete_sum", "delete_write"} => proc[p].node # n)
           => nodes[n].available =
                 (IF nodes[n].capacity > UsedSpace(chunks, n)
                  THEN nodes[n].capacity - UsedSpace(chunks, n) ELSE 0)

\* C11: a node whose available is 0 is never active, and
\* update_storage_metrics leaves is_active true exactly when the available it
\* computed is greater than 0.
C11_ZeroAvailableInactive ==
    /\ [](\A n \in DOMAIN nodes : (nodes[n].available = 0) => ~nodes[n].is_active)
    /\ [][(resp'.op = "update_storage_metrics")
            => (nodes'[resp'.id].is_active = (nodes'[resp'.id].available > 0))]_vars

\* C12: an upload whose chunk_size is not a positive multiple of 4096, or
\* whose replication_factor is not positive, is rejected and changes nothing:
\* no File, Chunk or FileVersion is created, no StorageNode changes, and the
\* request does not go on to insert.
C12_InvalidUploadRejected ==
    [][(/\ resp'.op = "create"
        /\ resp'.status \in {0, 400, 409}
        /\ \/ ~(resp'.chunk_size > 0 /\ resp'.chunk_size % 4096 = 0)
           \/ ~(resp'.replication_factor > 0))
          => /\ resp'.status = 400
             /\ files' = files
             /\ chunks' = chunks
             /\ versions' = versions
             /\ nodes' = nodes
             /\ proc' = proc]_vars

\* C12 witness: a chunk_size above the minimum that is no multiple of 4096 was
\* rejected although the same bytes could have been stored.
C12_Witness ==
    /\ resp.op = "create"
    /\ resp.status = 400
    /\ resp.chunk_size >= 1024
    /\ resp.chunk_size % 4096 # 0
    /\ resp.replication_factor > 0
    /\ files = EmptyTable

\* C13: a StorageNode that some Chunk references is never deleted, no Chunk is
\* removed as a side effect of removing a node, and no Chunk references a
\* missing node.
C13_ReferencedNodeNotDeleted ==
    /\ [](\A c \in DOMAIN chunks : chunks[c].storage_node \in DOMAIN nodes)
    /\ [][/\ \A n \in DOMAIN nodes :
                (\E c \in DOMAIN chunks : chunks[c].storage_node = n) => n \in DOMAIN nodes'
          /\ (resp'.op = "delete_node") => (chunks' = chunks)]_vars

\* C14: deleting a file through the API keeps the File record and its
\* versions, sets is_deleted and sets deleted_at to the time of the deletion;
\* is_deleted holds exactly when deleted_at is set; soft_delete followed by
\* restore leaves is_deleted false and deleted_at unset.
C14_DeleteIsSoft ==
    /\ [](\A f \in DOMAIN files : files[f].is_deleted <=> (files[f].deleted_at # 0))
    /\ [][(resp'.op = "destroy_file")
            => /\ resp'.id \in DOMAIN files'
               /\ files'[resp'.id].is_deleted
               /\ files'[resp'.id].deleted_at = now'
               /\ versions' = versions]_vars
    /\ [][(resp.op = "soft_delete" /\ resp'.op = "restore_file" /\ resp'.id = resp.id)
            => (~files'[resp'.id].is_deleted /\ files'[resp'.id].deleted_at = 0)]_vars

\* C15: a file reported available is not deleted and has, for every ordinal
\* from 0 to its highest chunk_number, at least one completed chunk.
C15_AvailableNeedsCompletedChunks ==
    [][(resp'.op = "retrieve_file" /\ resp'.is_available)
          => LET f == resp'.id
                 own == {c \in DOMAIN chunks : chunks[c].file = f}
             IN  /\ ~files[f].is_deleted
                 /\ own # {}
                 /\ \A n \in 0..MaxOf({chunks[c].chunk_number : c \in own}) :
                       \E c \in own : /\ chunks[c].chunk_number = n
                                      /\ chunks[c].status = "completed"]_vars

\* C16: downloading a file that has a completed chunk for every ordinal
\* returns exactly the uploaded bytes (the bytes whose length and digest the
\* File records).
C16_DownloadReturnsUploadedBytes ==
    [][(/\ resp'.op = "download"
        /\ LET own == {c \in DOMAIN chunks : chunks[c].file = resp'.id}
           IN  /\ own # {}
               /\ \A n \in 0..MaxOf({chunks[c].chunk_number : c \in own}) :
                     \E c \in own : /\ chunks[c].chunk_number = n
                                    /\ chunks[c].status = "completed")
          => /\ resp'.status = 200
             /\ Len(resp'.body) = files[resp'.id].size
             /\ Digest(resp'.body) = files[resp'.id].checksum]_vars

\* C17: when a chunk deletion on node n completes with no concurrent operation
\* on n (the node and its chunks are as the deletion read them), available is
\* max(0, capacity - sum of the sizes of the chunks still on n) and is_active
\* is (available > 0).
C17_DeleteRecomputesAvailable ==
    [][\A p \in Procs :
          (/\ proc[p].pc = "delete_write"
           /\ proc'[p].pc = "idle"
           /\ proc[p].node \in DOMAIN nodes
           /\ proc[p].capacity = nodes[proc[p].node].capacity
           /\ proc[p].used_space = UsedSpace(chunks, proc[p].node))
            => LET n == proc[p].node
                   remaining == UsedSpace(chunks', n)
                   expected == IF nodes'[n].capacity - remaining > 0
                               THEN nodes'[n].capacity - remaining ELSE 0
               IN  /\ nodes'[n].available = expected
                   /\ nodes'[n].is_active = (expected > 0)]_vars

\* C17 witness: a deletion completed on a node that still holds chunks and has
\* room left.
C17_Witness ==
    /\ resp.op = "delete_chunk"
    /\ resp.status = 204
    /\ UsedSpace(chunks, resp.node) > 0
    /\ nodes[resp.node].available = nodes[resp.node].capacity - UsedSpace(chunks, resp.node)
    /\ nodes[resp.node].available > 0
    /\ nodes[resp.node].is_active

\* C18: whenever mark_as_primary(c) returns, the stored c is primary, every
\* other replica of its (file, chunk_number) is not, and the chunks of other
\* (file, chunk_number) pairs are unchanged, also when the caller's copy of c
\* is stale.
C18_MarkedChunkIsPrimary ==
    [][(resp'.op = "mark_as_primary" /\ resp'.status = 200)
          => LET c == resp'.id
             IN  /\ chunks'[c].is_primary
                 /\ \A d \in Replicas(c) \ {c} : ~chunks'[d].is_primary
                 /\ \A d \in DOMAIN chunks \ Replicas(c) : chunks'[d] = chunks[d]]_vars

\* C19: a heartbeat changes only the last_heartbeat of its node (capacity,
\* available and is_active keep the values stored at that moment, so those
\* written by update_storage_metrics or a chunk deletion survive), and
\* update_storage_metrics and chunk deletion leave last_heartbeat alone.
C19_HeartbeatOnlyTouchesHeartbeat ==
    /\ [][(resp'.op = "heartbeat" /\ resp'.status = 200)
            => /\ nodes' = [nodes EXCEPT ![resp'.id].last_heartbeat = now']
               /\ chunks' = chunks
               /\ files' = files
               /\ versions' = versions]_vars
    /\ [][(resp'.op \in {"update_storage_metrics", "delete_chunk"})
            => /\ DOMAIN nodes' = DOMAIN nodes
               /\ \A n \in DOMAIN nodes :
                     /\ nodes'[n].last_heartbeat = nodes[n].last_heartbeat
                     /\ nodes'[n].capacity = nodes[n].capacity]_vars

\* C19 witness: a heartbeat was saved after the metrics of its node had been
\* rewritten since the heartbeat loaded it, and the rewritten metrics are kept.
C19_Witness ==
    /\ resp.op = "heartbeat"
    /\ resp.status = 200
    /\ nodes[resp.id].available # resp.loaded.available
    /\ nodes[resp.id].last_heartbeat = now
====
